---- MODULE Spec2Model ----
(***************************************************************************)
(* The draw engine of the team-operations system: the luckydrawlog and     *)
(* shopitems tables, LuckyDrawService (create_draw, execute_draw,          *)
(* set_winner, delete_draw), draw_lucky_winner, ShopService::purchase_item *)
(* and the lottery scheduler.                                              *)
(*                                                                         *)
(* Every .await of the source is a point where another task may run, so a  *)
(* handler that awaits several statements is one action per statement.     *)
(* Statements run inside a sqlx transaction are staged in txn and become   *)
(* visible to the other connections at commit; SQLite admits one writer at *)
(* a time, so a write waits while another connection's transaction is      *)
(* open.                                                                   *)
(***************************************************************************)
EXTENDS Integers, Sequences, FiniteSets, TLC

\* ---------------------------------------------------------------- bounds
MaxDraws  == 2       \* draw ids handed out by AUTOINCREMENT in one run
ExecDraws == 1       \* of them, draws created in the execution specifications
MaxStock  == 2       \* stock of the listed item at start

Users      == {"u1", "u2"}            \* user.qq
Tasks      == {"t1", "t2", "t3"}      \* request-handling tasks
Pair       == {"t1", "t2"}            \* two of them
Sched      == "sched"                 \* the scheduler's background task
Procs      == Tasks \cup {Sched}
ItemIds    == {1}                     \* shopitems.id
DrawIds    == 1..MaxDraws             \* luckydrawlog.id
Quantities == {1, 2}                  \* num
AnyQuantities == {-1, 0, 1, 2}        \* num: i32 as the request carries it
Balances   == {0, 1}                  \* total_lp
Thresholds == {0, 1}                  \* min_lp_require
Times      == {0, 1}                  \* plan_time and the clock: strings
                                      \* "%Y-%m-%d %H:%M:%S", whose text order
                                      \* is the order of time

\* Option<T>: None is <<>>, Some(x) is <<x>>
None    == <<>>
Some(x) == <<x>>

\* LuckyDrawStatus
Pending    == 0
Executed   == 1
Unfillable == 2

VARIABLES
    items,      \* shopitems: id -> [count, seller]
    draws,      \* luckydrawlog: id -> row
    nextId,     \* the next AUTOINCREMENT id of luckydrawlog
    lp,         \* user_lp_summary: qq -> total_lp
    now,        \* Local::now()
    txn,        \* the open write transaction: None or Some(staged tables)
    proc,       \* each task's position in its handler and its locals
    pending,    \* the scheduler's pending_draws still to be executed
    resv        \* history: per draw, the stock before its reservation and
                \* whether delete_draw has given the reservation back

vars == <<items, draws, nextId, lp, now, txn, proc, pending, resv>>

\* ------------------------------------------------------------ results
NoResult == [kind |-> "none", id |-> 0, winners |-> <<>>, rows |-> <<>>]
Err(k)   == [kind |-> k, id |-> 0, winners |-> <<>>, rows |-> <<>>]
OkId(n)  == [kind |-> "Ok", id |-> n, winners |-> <<>>, rows |-> <<>>]
OkSome(w) == [kind |-> "Winners", id |-> 0, winners |-> w, rows |-> <<>>]
OkNone   == [kind |-> "NoWinner", id |-> 0, winners |-> <<>>, rows |-> <<>>]
OkRows(s) == [kind |-> "Rows", id |-> 0, winners |-> <<>>, rows |-> s]

\* sqlx::Error values the handlers build or pass on
NotFound       == Err("NotFound")        \* sqlx::Error::RowNotFound
Conflict       == Err("Conflict")        \* Decode: insufficient stock
Forbidden      == Err("Forbidden")       \* Decode: not the item's owner
StorageFailure == Err("StorageFailure")  \* any other sqlx::Error

Idle == [op |-> "none", pc |-> "idle", creator |-> "", item |-> 0, num |-> 0,
         min_lp |-> 0, plan |-> 0, draw |-> 0, rd |-> None, elig |-> {},
         winners |-> <<>>, result |-> NoResult]

NoResv == [pre |-> 0, clean |-> FALSE, set |-> FALSE, released |-> FALSE]

\* ---------------------------------------------------------------- tables
\* INSERT of a row / DELETE of a row on a table held as a function
Insert(t, k, row) == [i \in DOMAIN t \cup {k} |-> IF i = k THEN row ELSE t[i]]
Delete(t, k)      == [i \in DOMAIN t \ {k} |-> t[i]]

\* the INSERT storing status 1 instead of 0
NewDrawExecuted(creator, item_id, num, min_lp, plan) ==
    [create_qq |-> creator, item_id |-> item_id, num |-> num,
     min_lp_require |-> min_lp, plan_time |-> plan,
     status |-> 1, winner_qq |-> None]

NewDraw(creator, item_id, num, min_lp, plan) ==
    [create_qq |-> creator, item_id |-> item_id, num |-> num,
     min_lp_require |-> min_lp, plan_time |-> plan,
     status |-> Pending, winner_qq |-> None]

\* The write lock: a statement that writes waits while another connection's
\* transaction holds staged writes.
Unlocked == txn = None

Free(p) == proc[p].pc \in {"idle", "done"}

\* a finished call: its arguments and its result; the locals are dropped
Done(p, r) ==
    [proc[p] EXCEPT !.pc = "done", !.result = r, !.elig = {}, !.winners = <<>>,
                    !.min_lp = 0, !.plan = 0]

\* History kept for the reservation round trip: a committed change of an
\* item's stock that is not the draw's own reservation marks the draws that
\* hold a reservation on the item.
Touch(r, i, ds) == [d \in DrawIds |->
    IF r[d].set /\ d \in DOMAIN ds /\ ds[d].item_id = Some(i)
    THEN [r[d] EXCEPT !.clean = FALSE] ELSE r[d]]

Init ==
    /\ items = [i \in ItemIds |-> [count |-> MaxStock, seller |-> "u1"]]
    /\ draws = <<>>
    /\ nextId = 1
    /\ lp = [u \in Users |-> 0]
    /\ now = 0
    /\ txn = None
    /\ proc = [p \in Procs |-> Idle]
    /\ pending = <<>>
    /\ resv = [d \in DrawIds |-> NoResv]

\* ------------------------------------------------- create_draw (with item)
\* the advisory checks without the owner check
CreateReadResultNoOwner(creator, item, num) ==
    IF item \notin DOMAIN items THEN NotFound
    ELSE IF items[item].count < num THEN Conflict
    ELSE NoResult

\* lines 23-44: the advisory read and the three checks, outside the transaction
CreateReadResult(creator, item, num) ==
    IF item \notin DOMAIN items THEN NotFound
    ELSE IF items[item].count < num THEN Conflict
    ELSE IF items[item].seller # creator THEN Forbidden
    ELSE NoResult

CreateRead(p, creator, item, num, min_lp, plan) ==
    /\ Free(p)
    /\ LET r == CreateReadResult(creator, item, num)
           c == [Idle EXCEPT !.op = "create", !.creator = creator, !.item = item,
                             !.num = num, !.min_lp = min_lp, !.plan = plan,
                             !.rd = IF item \in DOMAIN items
                                    THEN Some(items[item]) ELSE None]
       IN proc' = [proc EXCEPT ![p] =
                     IF r = NoResult THEN [c EXCEPT !.pc = "update"]
                     ELSE [c EXCEPT !.pc = "done", !.result = r]]
    /\ UNCHANGED <<items, draws, nextId, lp, now, txn, pending, resv>>

\* line 28: any error of the read is mapped to RowNotFound
CreateReadErr(p, creator, item, num, min_lp, plan) ==
    /\ Free(p)
    /\ proc' = [proc EXCEPT ![p] =
                  [Idle EXCEPT !.op = "create", !.creator = creator, !.item = item,
                               !.num = num, !.min_lp = min_lp, !.plan = plan,
                               !.pc = "done", !.result = NotFound]]
    /\ UNCHANGED <<items, draws, nextId, lp, now, txn, pending, resv>>

\* the UPDATE without its guard count >= ?
DecrementRowsUnguarded(t, item, num) ==
    IF item \in DOMAIN t THEN 1 ELSE 0

\* lines 50-51: UPDATE shopitems SET count = count - ? WHERE id = ? AND count >= ?
\* the rows the statement affects, and the table after it
DecrementRows(t, item, num) ==
    IF item \in DOMAIN t /\ t[item].count >= num THEN 1 ELSE 0

\* the UPDATE lowering the stock by one instead of by the bound quantity
DecrementByOne(t, item, num) ==
    IF DecrementRows(t, item, num) = 1
    THEN [t EXCEPT ![item].count = @ - 1] ELSE t

Decrement(t, item, num) ==
    IF DecrementRows(t, item, num) = 1
    THEN [t EXCEPT ![item].count = @ - num] ELSE t

\* the decrement executed on the pool instead of on the transaction
CreateUpdateOnPool(p) ==
    /\ proc[p].op = "create" /\ proc[p].pc = "update"
    /\ Unlocked
    /\ IF DecrementRows(items, proc[p].item, proc[p].num) = 0
       THEN /\ proc' = [proc EXCEPT ![p] = Done(p, Conflict)]
            /\ txn' = None
            /\ UNCHANGED items
       ELSE /\ proc' = [proc EXCEPT ![p].pc = "insert"]
            /\ items' = Decrement(items, proc[p].item, proc[p].num)
            /\ txn' = Some([owner |-> p, items |-> items', draws |-> draws,
                            nextId |-> nextId])
    /\ UNCHANGED <<draws, nextId, lp, now, pending, resv>>

\* lines 47-61: begin, the conditional decrement, the rows_affected check;
\* the early return drops tx, which rolls it back
CreateUpdate(p) ==
    /\ proc[p].op = "create" /\ proc[p].pc = "update"
    /\ Unlocked
    /\ IF DecrementRows(items, proc[p].item, proc[p].num) = 0
       THEN /\ proc' = [proc EXCEPT ![p] = Done(p, Conflict)]
            /\ txn' = None
       ELSE /\ proc' = [proc EXCEPT ![p].pc = "insert"]
            /\ txn' = Some([owner |-> p,
                            items |-> Decrement(items, proc[p].item, proc[p].num),
                            draws |-> draws, nextId |-> nextId])
    /\ UNCHANGED <<items, draws, nextId, lp, now, pending, resv>>

\* lines 64-81: INSERT INTO luckydrawlog ... status 0, inside the transaction
CreateInsert(p) ==
    /\ proc[p].op = "create" /\ proc[p].pc = "insert"
    /\ txn # None /\ txn[1].owner = p
    /\ txn[1].nextId <= MaxDraws
    /\ LET id == txn[1].nextId
       IN /\ txn' = Some([txn[1] EXCEPT
                  !.draws = Insert(@, id, NewDraw(proc[p].creator, Some(proc[p].item),
                                   proc[p].num, proc[p].min_lp, proc[p].plan)),
                  !.nextId = id + 1])
          /\ proc' = [proc EXCEPT ![p].pc = "commit", ![p].draw = id]
    /\ UNCHANGED <<items, draws, nextId, lp, now, pending, resv>>

\* line 84: tx.commit() publishes the decrement and the insert together
CreateCommit(p) ==
    /\ proc[p].op = "create" /\ proc[p].pc = "commit"
    /\ txn # None /\ txn[1].owner = p
    /\ items' = txn[1].items
    /\ draws' = txn[1].draws
    /\ nextId' = txn[1].nextId
    /\ txn' = None
    /\ proc' = [proc EXCEPT ![p] = Done(p, OkId(proc[p].draw))]
    /\ resv' = [Touch(resv, proc[p].item, draws) EXCEPT ![proc[p].draw] =
                  [pre |-> items[proc[p].item].count, clean |-> TRUE, set |-> TRUE,
                   released |-> FALSE]]
    /\ UNCHANGED <<lp, now, pending>>

\* lines 47, 56, 79, 84: `?` on a failed begin, UPDATE, INSERT or commit returns
\* the error; tx is dropped uncommitted and its staged writes are discarded
CreateAbort(p) ==
    /\ proc[p].op = "create" /\ proc[p].pc \in {"update", "insert", "commit"}
    /\ txn' = IF txn # None /\ txn[1].owner = p THEN None ELSE txn
    /\ proc' = [proc EXCEPT ![p] = Done(p, StorageFailure)]
    /\ UNCHANGED <<items, draws, nextId, lp, now, pending, resv>>

\* lines 93-113: no item: one INSERT on the pool
CreateNoItem(creator, num, min_lp, plan) ==
    /\ Unlocked
    /\ nextId <= MaxDraws
    /\ draws' = Insert(draws, nextId, NewDraw(creator, None, num, min_lp, plan))
    /\ nextId' = nextId + 1
    /\ UNCHANGED <<items, lp, now, txn, proc, pending, resv>>


\* ------------------------------------------------------------ delete_draw
\* lines 174-211, one transaction: SELECT status, item_id, num; when the draw
\* is Pending and linked, UPDATE shopitems SET count = count + num; DELETE the
\* row; commit. A draw id without a row makes fetch_one fail and nothing is
\* written.
\* the delete without the restoring UPDATE
RestoreNothing(t, item, num) == t

Restore(t, item, num) ==
    IF item \in DOMAIN t THEN [t EXCEPT ![item].count = @ + num] ELSE t

RestoresStock(row) == row.status = 0 /\ row.item_id # None

\* lines 184-206: the restoring UPDATE when the draw is Pending and linked,
\* then the DELETE
DeleteRows(d) ==
    /\ IF d \in DOMAIN draws /\ RestoresStock(draws[d])
       THEN /\ items' = Restore(items, draws[d].item_id[1], draws[d].num)
            /\ resv' = [Touch(resv, draws[d].item_id[1], draws) EXCEPT ![d] =
                          [NoResv EXCEPT !.released = TRUE]]
       ELSE /\ UNCHANGED items
            /\ resv' = [resv EXCEPT ![d] = NoResv]
    /\ draws' = Delete(draws, d)

DeleteDraw(d) ==
    /\ Unlocked
    /\ d \in DOMAIN draws
    /\ DeleteRows(d)
    /\ UNCHANGED <<nextId, lp, now, txn, proc, pending>>

\* Ok(()) of delete_draw and set_winner
OkUnit == OkId(0)

\* the SELECT as if fetch_one never failed on a missing row
DeleteOutcomeAlwaysOk(ds, d) == OkUnit

\* lines 177-181: fetch_one fails with RowNotFound when the id has no row
DeleteOutcome(ds, d) == IF d \in DOMAIN ds THEN OkUnit ELSE NotFound

\* delete_draw as a call of task p with its result: on a missing row the `?`
\* returns the error and the transaction, which has written nothing, is dropped
DeleteCall(p, d) ==
    /\ Free(p)
    /\ LET r == DeleteOutcome(draws, d)
       IN /\ proc' = [proc EXCEPT ![p] =
                    [Idle EXCEPT !.op = "delete", !.pc = "done", !.draw = d,
                                 !.result = r]]
          /\ IF r = OkUnit
             THEN Unlocked /\ DeleteRows(d)
             ELSE UNCHANGED <<items, draws, resv>>
    /\ UNCHANGED <<nextId, lp, now, txn, pending>>

\* lines 174, 181, 191, 206, 209: `?` on a failed begin, statement or commit
\* returns the error; the transaction is dropped uncommitted
DeleteCallErr(p, d) ==
    /\ Free(p)
    /\ proc' = [proc EXCEPT ![p] =
                  [Idle EXCEPT !.op = "delete", !.pc = "done", !.draw = d,
                               !.result = StorageFailure]]
    /\ UNCHANGED <<items, draws, nextId, lp, now, txn, pending, resv>>

\* ----------------------------------------------------------- set_winner
\* the UPDATE writing only a draw that is still Pending
SetWinnerRowIfPending(row, winner_qq) ==
    IF row.status = 0 THEN [row EXCEPT !.status = 1, !.winner_qq = Some(winner_qq)]
    ELSE row

\* lines 122-129: UPDATE luckydrawlog SET status = 1, winner_qq = ? WHERE id = ?
SetWinnerRow(row, winner_qq) ==
    [row EXCEPT !.status = 1, !.winner_qq = Some(winner_qq)]

SetWinner(d, w) ==
    /\ Unlocked
    /\ d \in DOMAIN draws
    /\ draws' = [draws EXCEPT ![d] = SetWinnerRow(@, w)]
    /\ UNCHANGED <<items, nextId, lp, now, txn, proc, pending, resv>>

\* set_winner as a call of task p with its result (the record keeps the
\* argument winner_qq in winners); an id without a row matches nothing and
\* the call still returns Ok(())
SetWinnerCall(p, d, w) ==
    /\ Free(p)
    /\ Unlocked
    /\ draws' = IF d \in DOMAIN draws
                THEN [draws EXCEPT ![d] = SetWinnerRow(@, w)] ELSE draws
    /\ proc' = [proc EXCEPT ![p] =
                  [Idle EXCEPT !.op = "set_winner", !.pc = "done", !.draw = d,
                               !.winners = <<w>>, !.result = OkUnit]]
    /\ UNCHANGED <<items, nextId, lp, now, txn, pending, resv>>

\* line 127: `?` on a failed UPDATE
SetWinnerCallErr(p, d, w) ==
    /\ Free(p)
    /\ proc' = [proc EXCEPT ![p] =
                  [Idle EXCEPT !.op = "set_winner", !.pc = "done", !.draw = d,
                               !.winners = <<w>>, !.result = StorageFailure]]
    /\ UNCHANGED <<items, draws, nextId, lp, now, txn, pending, resv>>

\* -------------------------------------------------- ShopService::purchase_item
\* shop_service.rs 39-88 with the trigger update_shop_inventory (db/mod.rs
\* 185-193), one transaction: the item must exist with count >= the requested
\* count; the INSERT INTO shoplog fires the trigger, which decrements the
\* stock under the guard count >= NEW.count (each listed item has its own
\* name and seller, so the trigger's lookup is the purchased item); an item
\* left with no stock is deleted, and luckydrawlog.item_id is declared
\* ON DELETE SET NULL.
SetNull(ds, item) == [d \in DOMAIN ds |->
    IF ds[d].item_id = Some(item) THEN [ds[d] EXCEPT !.item_id = None] ELSE ds[d]]

PurchaseItem(item, count) ==
    /\ Unlocked
    /\ item \in DOMAIN items
    /\ items[item].count >= count
    /\ LET after == Decrement(items, item, count)
       IN IF after[item].count <= 0
          THEN /\ items' = Delete(after, item)
               /\ draws' = SetNull(draws, item)
          ELSE /\ items' = after
               /\ UNCHANGED draws
    /\ resv' = Touch(resv, item, draws)
    /\ UNCHANGED <<nextId, lp, now, txn, proc, pending>>

\* --------------------------------------------------------- environment
\* user_lp_summary.total_lp is the sum of a user's approved lplog rows
\* (db/mod.rs 159-169); an approval or a revocation changes it.
LpChange(u, v) ==
    /\ lp[u] # v
    /\ lp' = [lp EXCEPT ![u] = v]
    /\ UNCHANGED <<items, draws, nextId, now, txn, proc, pending, resv>>

TimePasses ==
    /\ now + 1 \in Times
    /\ now' = now + 1
    /\ UNCHANGED <<items, draws, nextId, lp, txn, proc, pending, resv>>

\* ---------------------------------------------------- draw_lucky_winner
\* line 439: winners.join(", ")
RECURSIVE Join(_)
Join(w) ==
    IF w = <<>> THEN ""
    ELSE IF Len(w) = 1 THEN w[1]
    ELSE w[1] \o ", " \o Join(Tail(w))

\* the eligibility query without its WHERE clause
EligibleUnfiltered(min_lp) == Users

\* line 411: SELECT qq FROM user_lp_summary WHERE total_lp >= ?
Eligible(min_lp) == {u \in Users : lp[u] >= min_lp}

\* line 432: min(num as usize, eligible_users.len()); a negative i32 cast to
\* usize is larger than any length
WinnerCount(num, n) == IF num < 0 \/ num > n THEN n ELSE num

\* lines 433-435: shuffle, then take(winner_count): any arrangement of
\* winner_count different eligible users, the seed deciding which
Selections(elig, k) ==
    {w \in [1..k -> elig] : \A i, j \in 1..k : i # j => w[i] # w[j]}

\* what the caller does with the value draw_lucky_winner returns: a request
\* handler returns it; the scheduler (scheduler.rs 43-63) logs Ok(Some) and
\* Err and goes on to the next draw, and on Ok(None) goes on to mark the draw
NextDraw(rest) ==
    IF rest = <<>> THEN Idle
    ELSE [Idle EXCEPT !.op = "execute", !.pc = "load", !.draw = Head(rest)]

\* the match that aborted the tick on an error
SchedAbortOnErr(r) ==
    IF r = OkNone THEN <<[Done(Sched, r) EXCEPT !.pc = "mark"], pending>>
    ELSE IF r = StorageFailure THEN <<Idle, <<>>>>
    ELSE <<NextDraw(Tail(pending)), Tail(pending)>>

\* scheduler.rs 43-63, the match on the returned value: the scheduler's next
\* position and the draws left for this tick
SchedContinue(r) ==
    IF r = OkNone THEN <<[Done(Sched, r) EXCEPT !.pc = "mark"], pending>>
    ELSE <<NextDraw(Tail(pending)), Tail(pending)>>

Return(p, d, r) ==
    IF p # Sched
    THEN /\ proc' = [proc EXCEPT ![p] =
                  [Idle EXCEPT !.op = "execute", !.pc = "done", !.draw = d,
                               !.result = r]]
         /\ UNCHANGED pending
    ELSE /\ proc' = [proc EXCEPT ![p] = SchedContinue(r)[1]]
         /\ pending' = SchedContinue(r)[2]

\* lines 394-407: SELECT min_lp_require, status, item_id, num; no row, or a
\* status other than 0, returns Ok(None)
Load(p, d) ==
    /\ IF d \notin DOMAIN draws \/ draws[d].status # 0
       THEN Return(p, d, OkNone)
       ELSE /\ proc' = [proc EXCEPT ![p] =
                  [Idle EXCEPT !.op = "execute", !.pc = "query", !.draw = d,
                               !.min_lp = draws[d].min_lp_require,
                               !.num = draws[d].num]]
            /\ UNCHANGED pending
    /\ UNCHANGED <<items, draws, nextId, lp, now, txn, resv>>

\* execute_draw (lucky_draw_service.rs 117-119) called by a request handler
ExecuteDraw(p, d) ==
    /\ p \in Tasks /\ Free(p)
    /\ Load(p, d)

ExecuteDrawErr(p, d) ==
    /\ p \in Tasks /\ Free(p)
    /\ proc' = [proc EXCEPT ![p] =
                  [Idle EXCEPT !.op = "execute", !.pc = "done", !.draw = d,
                               !.result = StorageFailure]]
    /\ UNCHANGED <<items, draws, nextId, lp, now, txn, pending, resv>>

\* the scheduler's call, scheduler.rs 43
SchedLoad ==
    /\ proc[Sched].pc = "load"
    /\ Load(Sched, proc[Sched].draw)

\* lines 410-435: the eligibility query, the empty check, the selection
Query(p) ==
    /\ proc[p].op = "execute" /\ proc[p].pc = "query"
    /\ LET elig == Eligible(proc[p].min_lp)
           k    == WinnerCount(proc[p].num, Cardinality(elig))
       IN IF elig = {}
          THEN Return(p, proc[p].draw, OkNone)
          ELSE /\ \E w \in Selections(elig, k) :
                    proc' = [proc EXCEPT ![p].pc = "update", ![p].elig = elig,
                                         ![p].winners = w]
               /\ UNCHANGED pending
    /\ UNCHANGED <<items, draws, nextId, lp, now, txn, resv>>

\* lines 442-446: UPDATE luckydrawlog SET status = 1, winner_qq = ? WHERE id = ?
PersistWinners(ds, d, w) ==
    IF d \in DOMAIN ds
    THEN [ds EXCEPT ![d].status = 1, ![d].winner_qq = Some(Join(w))]
    ELSE ds

\* lines 437-452: no winners returns Ok(None) without a write; otherwise the
\* UPDATE and Ok(Some(winners))
Update(p) ==
    /\ proc[p].op = "execute" /\ proc[p].pc = "update"
    /\ IF proc[p].winners = <<>>
       THEN /\ Return(p, proc[p].draw, OkNone)
            /\ UNCHANGED draws
       ELSE /\ Unlocked
            /\ draws' = PersistWinners(draws, proc[p].draw, proc[p].winners)
            /\ Return(p, proc[p].draw, OkSome(proc[p].winners))
    /\ UNCHANGED <<items, nextId, lp, now, txn, resv>>

\* lines 399, 414, 446: `?` on a failed statement returns the error
ExecFail(p) ==
    /\ proc[p].op = "execute" /\ proc[p].pc \in {"load", "query", "update"}
    /\ Return(p, proc[p].draw, StorageFailure)
    /\ UNCHANGED <<items, draws, nextId, lp, now, txn, resv>>

\* ------------------------------------------------------------- scheduler
\* scheduler.rs 27-35: SELECT id ... WHERE status = 0 AND plan_time <= ?
\* ORDER BY plan_time ASC; rows with equal plan_time come in any order
\* the query without its condition on plan_time
DueAtAnyTime == {d \in DOMAIN draws : draws[d].status = 0}

Due == {d \in DOMAIN draws : draws[d].status = 0 /\ draws[d].plan_time <= now}

\* the query without its ORDER BY
DueListsUnordered ==
    {s \in [1..Cardinality(Due) -> Due] :
        \A i, j \in DOMAIN s : i # j => s[i] # s[j]}

DueLists ==
    {s \in [1..Cardinality(Due) -> Due] :
        /\ \A i, j \in DOMAIN s : i # j => s[i] # s[j]
        /\ \A i, j \in DOMAIN s :
              i < j => draws[s[i]].plan_time <= draws[s[j]].plan_time}

\* scheduler.rs 12-18, 23-42: a tick fetches the due list and starts on it
SchedFetch ==
    /\ proc[Sched].pc = "idle"
    /\ \E s \in DueLists :
          /\ pending' = s
          /\ proc' = [proc EXCEPT ![Sched] = NextDraw(s)]
    /\ UNCHANGED <<items, draws, nextId, lp, now, txn, resv>>

\* the Ok(None) arm without its UPDATE
MarkNothing(ds, d) == ds

\* scheduler.rs 55-58: UPDATE luckydrawlog SET status = 2 WHERE id = ?
MarkUnfillable(ds, d) ==
    IF d \in DOMAIN ds THEN [ds EXCEPT ![d].status = 2] ELSE ds

SchedMark ==
    /\ proc[Sched].pc = "mark"
    /\ Unlocked
    /\ draws' = MarkUnfillable(draws, proc[Sched].draw)
    /\ proc' = [proc EXCEPT ![Sched] = NextDraw(Tail(pending))]
    /\ pending' = Tail(pending)
    /\ UNCHANGED <<items, nextId, lp, now, txn, resv>>

\* scheduler.rs 55-58: `let _ =` drops the UPDATE's error
SchedMarkErr ==
    /\ proc[Sched].pc = "mark"
    /\ proc' = [proc EXCEPT ![Sched] = NextDraw(Tail(pending))]
    /\ pending' = Tail(pending)
    /\ UNCHANGED <<items, draws, nextId, lp, now, txn, resv>>

\* get_pending_draws, lines 145-155: SELECT ... WHERE status = 0 ORDER BY
\* plan_time ASC. The rows are named by their ids; rows of equal plan_time
\* come in any order.
PendingLists ==
    LET rows == {d \in DOMAIN draws : draws[d].status = 0}
    IN {s \in [1..Cardinality(rows) -> rows] :
           /\ \A i, j \in DOMAIN s : i # j => s[i] # s[j]
           /\ \A i, j \in DOMAIN s :
                 i < j => draws[s[i]].plan_time <= draws[s[j]].plan_time}

GetPendingDraws(p) ==
    /\ Free(p)
    /\ \E s \in PendingLists :
          proc' = [proc EXCEPT ![p] =
                      [Idle EXCEPT !.op = "get_pending_draws", !.pc = "done",
                                   !.result = OkRows(s)]]
    /\ UNCHANGED <<items, draws, nextId, lp, now, txn, pending, resv>>

\* line 152: fetch_all(pool).await?
GetPendingDrawsErr(p) ==
    /\ Free(p)
    /\ proc' = [proc EXCEPT ![p] =
                   [Idle EXCEPT !.op = "get_pending_draws", !.pc = "done",
                                !.result = StorageFailure]]
    /\ UNCHANGED <<items, draws, nextId, lp, now, txn, pending, resv>>

\* get_user_wins, lines 157-169: SELECT ... WHERE winner_qq = ? ORDER BY
\* create_time DESC. The rows are named by their ids; create_time is not part
\* of the model and the order of the rows is left open.
UserWins(u) == {d \in DOMAIN draws : draws[d].winner_qq = Some(u)}

UserWinsLists(u) ==
    {s \in [1..Cardinality(UserWins(u)) -> UserWins(u)] :
        \A i, j \in DOMAIN s : i # j => s[i] # s[j]}

GetUserWins(p, u) ==
    /\ Free(p)
    /\ \E s \in UserWinsLists(u) :
          proc' = [proc EXCEPT ![p] =
                      [Idle EXCEPT !.op = "get_user_wins", !.pc = "done",
                                   !.winners = <<u>>, !.result = OkRows(s)]]
    /\ UNCHANGED <<items, draws, nextId, lp, now, txn, pending, resv>>

\* line 165: fetch_all(pool).await?
GetUserWinsErr(p, u) ==
    /\ Free(p)
    /\ proc' = [proc EXCEPT ![p] =
                   [Idle EXCEPT !.op = "get_user_wins", !.pc = "done",
                                !.winners = <<u>>, !.result = StorageFailure]]
    /\ UNCHANGED <<items, draws, nextId, lp, now, txn, pending, resv>>

\* ---------------------------------------------------------- specification
\* create_draw with an item, called by the tasks ps with thresholds ms and
\* plan times ts
CreateStep(ps, ms, ts) ==
    \/ \E p \in ps, c \in Users, i \in ItemIds, n \in Quantities,
          m \in ms, t \in ts :
          \/ CreateRead(p, c, i, n, m, t)
          \/ CreateReadErr(p, c, i, n, m, t)
    \/ \E p \in ps : CreateUpdate(p)
    \/ \E p \in ps : CreateInsert(p)
    \/ \E p \in ps : CreateCommit(p)
    \/ \E p \in ps : CreateAbort(p)

\* draw_lucky_winner called by the request handlers ps and by the scheduler
ExecStep(ps) ==
    \/ \E p \in ps, d \in DrawIds : ExecuteDraw(p, d)
    \/ \E p \in ps, d \in DrawIds : ExecuteDrawErr(p, d)
    \/ \E p \in ps \cup {Sched} : Query(p)
    \/ \E p \in ps \cup {Sched} : Update(p)
    \/ \E p \in ps \cup {Sched} : ExecFail(p)

SchedStep ==
    \/ SchedFetch
    \/ SchedLoad
    \/ SchedMark
    \/ SchedMarkErr

\* the whole engine
Next ==
    \/ CreateStep(Pair, Thresholds, Times)
    \/ \E c \in Users, n \in Quantities, m \in Thresholds, t \in Times :
          CreateNoItem(c, n, m, t)
    \/ \E d \in DrawIds : DeleteDraw(d)
    \/ \E d \in DrawIds, w \in Users : SetWinner(d, w)
    \/ \E i \in ItemIds, n \in Quantities : PurchaseItem(i, n)
    \/ ExecStep(Pair)
    \/ SchedStep
    \/ \E u \in Users, v \in Balances : LpChange(u, v)
    \/ TimePasses

Spec == Init /\ [][Next]_vars

\* the inventory side: draws created on the item, deleted, and purchases
NextStock ==
    \/ CreateStep(Pair, {0}, {0})
    \/ \E d \in DrawIds : DeleteDraw(d)
    \/ \E i \in ItemIds, n \in Quantities : PurchaseItem(i, n)

SpecStock == Init /\ [][NextStock]_vars

\* create_draw calls on the item that race: each task calls at most once
CallOnce(p, c, i, n) == proc[p].pc = "idle" /\ CreateRead(p, c, i, n, 0, 0)

CallOnceErr(p, c, i, n) == proc[p].pc = "idle" /\ CreateReadErr(p, c, i, n, 0, 0)

NextRace ==
    \/ \E p \in Tasks, c \in Users, i \in ItemIds, n \in Quantities :
          CallOnce(p, c, i, n)
    \/ \E p \in Tasks, c \in Users, i \in ItemIds, n \in Quantities :
          CallOnceErr(p, c, i, n)
    \/ \E p \in Tasks : CreateUpdate(p)
    \/ \E p \in Tasks : CreateInsert(p)
    \/ \E p \in Tasks : CreateCommit(p)
    \/ \E p \in Tasks : CreateAbort(p)

SpecRace == Init /\ [][NextRace]_vars

\* the execution side without the administrative override: draws without
\* an item, all due, executed by a request handler and by the scheduler
NextAuto ==
    \/ /\ nextId <= ExecDraws
       /\ \E n \in Quantities, m \in Thresholds : CreateNoItem("u1", n, m, 0)
    \/ \E d \in DrawIds : DeleteDraw(d)
    \/ ExecStep({"t1"})
    \/ SchedStep
    \/ \E u \in Users, v \in Balances : LpChange(u, v)

SpecAuto == Init /\ [][NextAuto]_vars

\* the execution side with set_winner
NextExec ==
    \/ NextAuto
    \/ \E d \in DrawIds, w \in Users : SetWinner(d, w)

SpecExec == Init /\ [][NextExec]_vars

\* the execution side with every quantity a request may carry: neither the
\* handler (api/lucky_draw.rs 66-98) nor create_draw checks num
NextAny ==
    \/ /\ nextId <= ExecDraws
       /\ \E n \in AnyQuantities, m \in Thresholds : CreateNoItem("u1", n, m, 0)
    \/ ExecStep({"t1"})
    \/ SchedStep
    \/ \E u \in Users, v \in Balances : LpChange(u, v)

SpecAny == Init /\ [][NextAny]_vars

\* two execute_draw calls one after the other: t1 calls once on a draw that
\* exists, and t2 calls on the same draw once t1's call has returned a value
FirstCall(d) ==
    /\ proc["t1"].pc = "idle"
    /\ d \in DOMAIN draws
    /\ ExecuteDraw("t1", d)

SecondCall(d) ==
    /\ proc["t1"].op = "execute" /\ proc["t1"].pc = "done"
    /\ proc["t1"].draw = d
    /\ proc["t1"].result.kind \in {"Winners", "NoWinner"}
    /\ proc["t2"].pc = "idle"
    /\ ExecuteDraw("t2", d)

NextTwice ==
    \/ /\ nextId <= ExecDraws
       /\ \E n \in Quantities, m \in Thresholds : CreateNoItem("u1", n, m, 0)
    \/ \E d \in DrawIds : FirstCall(d)
    \/ \E d \in DrawIds : SecondCall(d)
    \/ \E p \in Pair : Query(p)
    \/ \E p \in Pair : Update(p)
    \/ \E p \in Pair : ExecFail(p)
    \/ \E u \in Users, v \in Balances : LpChange(u, v)

SpecTwice == Init /\ [][NextTwice]_vars

\* draws on the item through their whole life: created by the item's owner
\* with any quantity a request may carry, executed by a handler or by the
\* scheduler, overridden by set_winner, deleted
NextFrame ==
    \/ /\ nextId <= ExecDraws
       /\ \E i \in ItemIds, n \in AnyQuantities, m \in Thresholds :
             CreateRead("t1", "u1", i, n, m, 0)
    \/ CreateUpdate("t1")
    \/ CreateInsert("t1")
    \/ CreateCommit("t1")
    \/ CreateAbort("t1")
    \/ \E d \in DrawIds : DeleteDraw(d)
    \/ \E d \in DrawIds, w \in Users : SetWinner(d, w)
    \/ ExecStep({"t1"})
    \/ SchedStep

SpecFrame == Init /\ [][NextFrame]_vars

\* delete_draw called with any id, on draws t1 creates on the item and
\* set_winner executes
NextDelete ==
    \/ CreateStep({"t1"}, {0}, {0})
    \/ \E d \in DrawIds, w \in Users : SetWinner(d, w)
    \/ \E d \in DrawIds : DeleteCall("t2", d)
    \/ \E d \in DrawIds : DeleteCallErr("t2", d)

SpecDelete == Init /\ [][NextDelete]_vars

\* the scheduler alone, on draws with any plan_time, while time passes
NextSched ==
    \/ /\ nextId <= MaxDraws
       /\ \E m \in Thresholds, t \in Times : CreateNoItem("u1", 1, m, t)
    \/ SchedStep
    \/ Query(Sched)
    \/ Update(Sched)
    \/ ExecFail(Sched)
    \/ TimePasses

SpecSched == Init /\ [][NextSched]_vars

\* the scheduler on draws with any plan_time, while a task lists the
\* pending draws
NextOrder ==
    \/ NextSched
    \/ GetPendingDraws("t2")
    \/ GetPendingDrawsErr("t2")

SpecOrder == Init /\ [][NextOrder]_vars

\* the scheduler under fairness, while draws are created and deleted.
\* The ticker fires every 60 seconds for as long as the server runs
\* (scheduler.rs 10-13): a tick that can start does start. A statement that
\* is attempted again and again eventually succeeds: strong fairness of the
\* successful outcome of each storage step against its failing one.
NextLive ==
    \/ NextSched
    \/ \E d \in DrawIds : DeleteDraw(d)

Fairness ==
    /\ WF_vars(SchedFetch)
    /\ SF_vars(SchedLoad)
    /\ SF_vars(Query(Sched))
    /\ SF_vars(Update(Sched))
    /\ SF_vars(SchedMark)

SpecLive == Init /\ [][NextLive]_vars /\ Fairness

\* the administrative override on draws linked to the item, in any status
\* the scheduler or an earlier override leaves them in
NextOverride ==
    \/ /\ nextId <= ExecDraws
       /\ \E i \in ItemIds, n \in Quantities, m \in Thresholds :
             CreateRead("t1", "u1", i, n, m, 0)
    \/ CreateUpdate("t1")
    \/ CreateInsert("t1")
    \/ CreateCommit("t1")
    \/ CreateAbort("t1")
    \/ SchedStep
    \/ Query(Sched)
    \/ Update(Sched)
    \/ ExecFail(Sched)
    \/ \E d \in DrawIds, w \in Users : SetWinnerCall("t2", d, w)
    \/ \E d \in DrawIds, w \in Users : SetWinnerCallErr("t2", d, w)

SpecOverride == Init /\ [][NextOverride]_vars

\* draws linked to the item through their whole life, while the item is
\* being purchased
NextLink ==
    \/ /\ nextId <= ExecDraws
       /\ \E i \in ItemIds, n \in Quantities, m \in Thresholds :
             CreateRead("t1", "u1", i, n, m, 0)
    \/ CreateUpdate("t1")
    \/ CreateInsert("t1")
    \/ CreateCommit("t1")
    \/ CreateAbort("t1")
    \/ \E i \in ItemIds, n \in Quantities : PurchaseItem(i, n)
    \/ \E d \in DrawIds : DeleteDraw(d)
    \/ \E d \in DrawIds, w \in Users : SetWinner(d, w)
    \/ ExecStep({"t1"})
    \/ SchedStep

SpecLink == Init /\ [][NextLink]_vars

\* the engine on the item without the shop: draws t1 creates on the item,
\* open to every user, executed by a task and by the scheduler, set by
\* set_winner and deleted
NextConserve ==
    \/ /\ nextId <= MaxDraws
       /\ \E i \in ItemIds, n \in Quantities :
             CreateRead("t1", "u1", i, n, 0, 0)
    \/ CreateUpdate("t1")
    \/ CreateInsert("t1")
    \/ CreateCommit("t1")
    \/ CreateAbort("t1")
    \/ \E d \in DrawIds : DeleteDraw(d)
    \/ \E d \in DrawIds : SetWinner(d, "u1")
    \/ ExecStep({"t1"})
    \/ SchedStep

SpecConserve == Init /\ [][NextConserve]_vars

\* draws open to every user, executed by a task and by the scheduler, set by
\* set_winner and deleted, while a task lists a user's wins
NextWins ==
    \/ /\ nextId <= ExecDraws
       /\ \E n \in Quantities : CreateNoItem("u1", n, 0, 0)
    \/ \E d \in DrawIds : DeleteDraw(d)
    \/ \E d \in DrawIds, w \in Users : SetWinner(d, w)
    \/ ExecStep({"t1"})
    \/ SchedStep
    \/ \E u \in Users : GetUserWins("t2", u)
    \/ \E u \in Users : GetUserWinsErr("t2", u)

SpecWins == Init /\ [][NextWins]_vars

\* create_draw without an item, by any user, while the item is reserved by
\* linked draws, purchased and sold out
NextNoItem ==
    \/ /\ nextId <= MaxDraws
       /\ \E c \in Users, n \in Quantities : CreateNoItem(c, n, 0, 0)
    \/ CreateStep({"t1"}, {0}, {0})
    \/ \E i \in ItemIds, n \in Quantities : PurchaseItem(i, n)
    \/ \E d \in DrawIds : DeleteDraw(d)

SpecNoItem == Init /\ [][NextNoItem]_vars

\* ================================================================ claims
\* the rows present before and after a step
Kept == DOMAIN draws \cap DOMAIN draws'

\* C1: a draw's winner list is selected and written at most once: a step
\* that writes the winner field of a draw finds it empty, so no two callers
\* of execute_draw persist or return different winner lists for the draw
\* (SpecAuto has no set_winner: every write of the field is draw_lucky_winner's).
C1_WinnersWrittenOnce ==
    [][\A d \in Kept :
          draws'[d].winner_qq # draws[d].winner_qq => draws[d].winner_qq = None]_vars

\* C2: once a draw is Executed with a winner list, a step changes its status
\* or its winner field only if the step is set_winner on that draw
C2_ExecutedIsFinal ==
    [][\A d \in Kept :
          (/\ draws[d].status = Executed
           /\ draws[d].winner_qq # None
           /\ \/ draws'[d].status # draws[d].status
              \/ draws'[d].winner_qq # draws[d].winner_qq)
          => \E w \in Users : SetWinner(d, w)]_vars

\* C3: every status is Pending, Executed or Unfillable, a new draw is
\* Pending, and a status changes only from Pending, to Executed or Unfillable
C3_StatusMachine ==
    [][\A d \in DOMAIN draws' :
          /\ draws'[d].status \in {Pending, Executed, Unfillable}
          /\ d \notin DOMAIN draws => draws'[d].status = Pending
          /\ (d \in DOMAIN draws /\ draws'[d].status # draws[d].status)
                => draws[d].status = Pending]_vars

\* the elements of a winner list
Range(w) == {w[i] : i \in DOMAIN w}

\* p is inside draw_lucky_winner at pc and takes its step
Steps(p, pc) == proc[p].op = "execute" /\ proc[p].pc = pc /\ proc'[p] # proc[p]

\* the threshold of the draw p executes: the row's min_lp_require
ThresholdOf(p) ==
    IF proc[p].draw \in DOMAIN draws
    THEN draws[proc[p].draw].min_lp_require ELSE proc[p].min_lp

\* C10: the winners execute_draw selects all have total_lp >= the draw's
\* min_lp_require in the state its eligibility query reads, and the winner
\* list it then persists and returns is that selection
C10_WinnersEligible ==
    [][\A p \in Procs :
          /\ (Steps(p, "query") /\ proc'[p].pc = "update")
                => \A u \in Range(proc'[p].winners) : lp[u] >= ThresholdOf(p)
          /\ (Steps(p, "update") /\ proc[p].draw \in Kept /\ draws' # draws)
                => draws'[proc[p].draw].winner_qq = Some(Join(proc[p].winners))
          /\ (Steps(p, "update") /\ proc'[p].result.kind = "Winners")
                => proc'[p].result.winners = proc[p].winners]_vars

\* a draw with threshold 1 was executed while some user was below it
C10_Witness ==
    \E d \in DOMAIN draws :
        /\ draws[d].status = Executed
        /\ draws[d].min_lp_require = 1
        /\ draws[d].winner_qq # None
        /\ \E u \in Users : lp[u] < 1
        /\ \E p \in Tasks : proc[p].result.kind = "Winners"

\* ------------------------------------------------------ the inventory side
\* p's create_draw call takes a step; it ends with an id in this step
CreateMoves(p) == proc'[p] # proc[p] /\ proc'[p].op = "create"
Succeeds(p)    == CreateMoves(p) /\ proc'[p].pc = "done" /\ proc'[p].result.kind = "Ok"
Fails(p)       == CreateMoves(p) /\ proc'[p].pc = "done" /\ proc'[p].result.kind # "Ok"

\* C4: the step in which a create_draw call on an item succeeds lowers that
\* item's stock by exactly the quantity, and every other step of a
\* create_draw call, a failing one included, leaves all stock as it was
C4_StockLoweredIffCreated ==
    [][\A p \in Tasks : CreateMoves(p) =>
          LET i == proc'[p].item
              n == proc'[p].num
          IN IF Succeeds(p)
             THEN /\ i \in DOMAIN items /\ DOMAIN items' = DOMAIN items
                  /\ items' = [items EXCEPT ![i].count = items[i].count - n]
             ELSE items' = items]_vars

\* a call for two units has succeeded and the stock is two lower
C4_Witness ==
    \E p \in Tasks :
        /\ proc[p].op = "create" /\ proc[p].result.kind = "Ok" /\ proc[p].num = 2
        /\ 1 \in DOMAIN items /\ items[1].count = MaxStock - 2

\* C5: deleting a Pending draw linked to an item, when nothing else has
\* changed the item's stock since the draw's creation, leaves the stock at
\* its value before the creation
C5_DeleteRestoresStock ==
    [][\A d \in DOMAIN draws :
          (/\ d \notin DOMAIN draws'
           /\ draws[d].status = Pending /\ draws[d].item_id # None
           /\ resv[d].set /\ resv[d].clean)
          => /\ draws[d].item_id[1] \in DOMAIN items'
             /\ items'[draws[d].item_id[1]].count = resv[d].pre]_vars

\* the one draw ever created was deleted and the stock is whole again
C5_Witness ==
    /\ DOMAIN draws = {} /\ nextId = 2
    /\ \E p \in Tasks : proc[p].result = OkId(1)
    /\ 1 \in DOMAIN items /\ items[1].count = MaxStock

\* sums over the calls and over the rows
RECURSIVE SumNum(_)
SumNum(ps) ==
    IF ps = {} THEN 0
    ELSE LET p == CHOOSE q \in ps : TRUE IN proc[p].num + SumNum(ps \ {p})

RECURSIVE SumDraws(_)
SumDraws(ds) ==
    IF ds = {} THEN 0
    ELSE LET d == CHOOSE e \in ds : TRUE IN draws[d].num + SumDraws(ds \ {d})

Called    == {p \in Tasks : proc[p].op = "create"}
Succeeded == {p \in Called : proc[p].result.kind = "Ok"}

\* create_draw calls by the owner that all read the full stock (so every
\* call began before any of them committed), asked together for more than
\* the stock, and have all ended, none by a storage failure
Raced ==
    /\ \A p \in Called :
          /\ proc[p].pc = "done"
          /\ proc[p].rd # None /\ proc[p].rd[1].count = MaxStock
          /\ proc[p].creator = proc[p].rd[1].seller
          /\ proc[p].result # StorageFailure
    /\ SumNum(Called) > MaxStock

\* C6 as stated: of concurrent create_draw calls on one item that together
\* ask for more than its stock, at most one succeeds and the others are
\* rejected with Conflict
C6_AtMostOneSucceeds ==
    Raced => /\ Cardinality(Succeeded) <= 1
             /\ \A p \in Called \ Succeeded : proc[p].result = Conflict

\* C6 as amended: the calls that succeed ask together for no more than the
\* stock (several may succeed, not all), the stock that is left is the stock
\* minus what they asked for, and every other call is rejected with Conflict
C6_NoOverReservation ==
    Raced => /\ SumNum(Succeeded) <= MaxStock
             /\ 1 \in DOMAIN items /\ items[1].count = MaxStock - SumNum(Succeeded)
             /\ Succeeded # Called
             /\ \A p \in Called \ Succeeded : proc[p].result = Conflict

\* two of three racing calls succeeded
C6_Witness == Raced /\ Called = Tasks /\ Cardinality(Succeeded) = 2

\* C7: in every state the other connections can read, the stock taken from
\* the item is exactly the quantity of the draws that exist (no decrement
\* without its draw, no draw without its decrement), and the step in which a
\* create_draw call fails changes neither table
C7_CreateIsAtomic ==
    /\ [](1 \in DOMAIN items /\ items[1].count + SumDraws(DOMAIN draws) = MaxStock)
    /\ [][\A p \in Tasks : Fails(p) => items' = items /\ draws' = draws]_vars

\* one call ended with a storage failure and another created its draw
C7_Witness ==
    /\ \E p \in Tasks : proc[p].op = "create" /\ proc[p].result = StorageFailure
    /\ \E p \in Tasks : proc[p].op = "create" /\ proc[p].result.kind = "Ok"
    /\ DOMAIN draws # {}

\* the first step of a create_draw call: the advisory read
CreateCalled(p) == Free(p) /\ CreateMoves(p)
Untouched == items' = items /\ draws' = draws /\ txn' = txn

\* C8 as stated: a creator who is not the item's owner gets Forbidden, a
\* missing item NotFound, stock < quantity Conflict, each changing nothing
C8_ForbiddenForNonOwner ==
    [][\A p \in Tasks : CreateCalled(p) =>
          LET c == proc'[p].creator
              i == proc'[p].item
              n == proc'[p].num
              read == proc'[p].rd # None
          IN /\ (read /\ items[i].seller # c)
                   => proc'[p].result = Forbidden /\ Untouched
             /\ (i \notin DOMAIN items)
                   => proc'[p].result = NotFound /\ Untouched
             /\ (read /\ items[i].count < n)
                   => proc'[p].result = Conflict /\ Untouched]_vars

\* C8 as amended: the stock check comes before the owner check, so a
\* creator who is not the owner gets Forbidden when the stock covers the
\* quantity and Conflict when it does not, and in no case succeeds
C8_ChecksInOrder ==
    [][\A p \in Tasks : CreateCalled(p) =>
          LET c == proc'[p].creator
              i == proc'[p].item
              n == proc'[p].num
              read == proc'[p].rd # None
          IN /\ (i \in DOMAIN items /\ items[i].seller # c)
                   => /\ proc'[p].pc = "done"
                      /\ proc'[p].result \in {Forbidden, Conflict, NotFound}
                      /\ Untouched
             /\ (read /\ items[i].seller # c /\ items[i].count >= n)
                   => proc'[p].result = Forbidden
             /\ (i \notin DOMAIN items)
                   => proc'[p].result = NotFound /\ Untouched
             /\ (read /\ items[i].count < n)
                   => proc'[p].result = Conflict /\ Untouched]_vars

\* a creator who is not the owner was refused with Conflict
C8_Witness ==
    \E p \in Tasks :
        /\ proc[p].op = "create" /\ proc[p].pc = "done" /\ proc[p].rd # None
        /\ proc[p].creator # proc[p].rd[1].seller
        /\ proc[p].rd[1].count < proc[p].num
        /\ proc[p].result = Conflict

\* the stock of every item, committed or staged, is not negative
StockNotNegative ==
    /\ \A i \in DOMAIN items : items[i].count >= 0
    /\ txn # None => \A i \in DOMAIN txn[1].items : txn[1].items[i].count >= 0

\* C9: when the stock has fallen below the quantity (or the item is gone)
\* between the advisory read and the decrement, the decrement affects no row:
\* the call ends with Conflict, nothing it wrote is kept, and no stock is
\* ever negative
C9_StaleReadIsRejected ==
    /\ []StockNotNegative
    /\ [][\A p \in Tasks :
            (/\ proc[p].op = "create" /\ proc[p].pc = "update"
             /\ proc'[p] # proc[p]
             /\ proc'[p].result # StorageFailure
             /\ \/ proc[p].item \notin DOMAIN items
                \/ items[proc[p].item].count < proc[p].num)
            => /\ proc'[p].pc = "done" /\ proc'[p].result = Conflict
               /\ items' = items /\ draws' = draws /\ txn' = None]_vars

\* a call that passed the advisory read was rejected by the decrement
C9_Witness ==
    \E p \in Tasks :
        /\ proc[p].op = "create" /\ proc[p].pc = "done" /\ proc[p].rd # None
        /\ proc[p].rd[1].count >= proc[p].num
        /\ proc[p].rd[1].seller = proc[p].creator
        /\ proc[p].result = Conflict

\* ------------------------------------------------------ the execution side
Min(a, b) == IF a < b THEN a ELSE b

Distinct(w) == \A i, j \in DOMAIN w : i # j => w[i] # w[j]

\* C11: execute_draw on a Pending draw whose eligible set is not empty
\* selects exactly min(quantity, size of the eligible set) winners, pairwise
\* different, and returns them
C11_ExactlyMinWinners ==
    [][\A p \in Procs :
          /\ (Steps(p, "query") /\ ~ExecFail(p) /\ Eligible(proc[p].min_lp) # {})
                => /\ proc'[p].pc = "update"
                   /\ Len(proc'[p].winners) =
                         Min(proc[p].num, Cardinality(Eligible(proc[p].min_lp)))
                   /\ Distinct(proc'[p].winners)
          /\ (p \in Tasks /\ Steps(p, "update") /\ ~ExecFail(p))
                => proc'[p].result = OkSome(proc[p].winners)]_vars

\* C12: execute_draw on a Pending draw whose eligible set is empty marks the
\* draw Unfillable and returns the no-eligible outcome, for a request
\* handler's call as for the scheduler's
C12_EmptyMarksUnfillable ==
    [][/\ \A p \in Tasks :
             (/\ Steps(p, "query") /\ ~ExecFail(p)
              /\ Eligible(proc[p].min_lp) = {}
              /\ proc[p].draw \in Kept
              /\ draws[proc[p].draw].status = Pending)
             => /\ proc'[p].result = OkNone
                /\ draws'[proc[p].draw].status = Unfillable
       /\ (/\ proc[Sched].pc = "mark" /\ proc'[Sched] # proc[Sched]
           /\ proc[Sched].draw \in Kept
           /\ draws[proc[Sched].draw].status = Pending)
          => draws'[proc[Sched].draw].status = Unfillable]_vars

\* C13: execute_draw on a draw id without a record returns NotFound, an
\* outcome other than the no-eligible one and other than winners, and changes
\* no draw record
C13_AbsentIsNotFound ==
    [][\A p \in Tasks, d \in DrawIds :
          (ExecuteDraw(p, d) /\ d \notin DOMAIN draws)
          => /\ proc'[p].result = NotFound
             /\ proc'[p].result.kind \notin {OkNone.kind, "Winners"}
             /\ draws' = draws]_vars

\* C14: execute_draw on a draw that is not Pending changes nothing and
\* returns the draw's prior outcome: the stored winners of an Executed draw,
\* the no-eligible outcome of an Unfillable one
C14_PriorOutcome ==
    [][\A p \in Tasks, d \in DrawIds :
          (ExecuteDraw(p, d) /\ d \in DOMAIN draws /\ draws[d].status # Pending)
          => /\ draws' = draws
             /\ IF draws[d].status = Executed
                THEN /\ proc'[p].result.kind = "Winners"
                     /\ Some(Join(proc'[p].result.winners)) = draws[d].winner_qq
                ELSE proc'[p].result = OkNone]_vars

\* C15: an execute_draw call issued after an earlier call on the same draw
\* has returned changes no draw record and no stock and selects no winners
\* (in SpecTwice every step of t2 belongs to such a second call)
C15_SecondCallIsNoOp ==
    [][proc'["t2"] # proc["t2"]
          => /\ draws' = draws
             /\ items' = items
             /\ proc'["t2"].winners = <<>>]_vars

\* the step deletes a Pending draw linked to item i
DeletesPendingOn(i) ==
    \E d \in DOMAIN draws \ DOMAIN draws' :
        /\ draws[d].status = Pending /\ draws[d].item_id = Some(i)
        /\ items'[i].count = items[i].count + draws[d].num

\* C16: a step of the draw engine raises an item's stock only when it is
\* delete_draw of a Pending draw linked to the item, and then by the draw's
\* quantity; execute_draw, the scheduler's mark, set_winner and delete_draw
\* of an Executed or Unfillable draw leave every stock as it was
C16_OnlyPendingDeleteRaisesStock ==
    [][/\ \A i \in DOMAIN items \cap DOMAIN items' :
             items'[i].count > items[i].count => DeletesPendingOn(i)
       /\ (/\ \A p \in Tasks : ~Succeeds(p)
           /\ \A d \in DOMAIN draws \ DOMAIN draws' : ~RestoresStock(draws[d]))
          => items' = items]_vars

\* C17: delete_draw on an id without a record fails with NotFound (and only
\* then) and changes no stock and no draw record; a delete_draw that succeeds
\* removes exactly the record of its id; one that fails changes nothing
C17_DeleteMissingIsNotFound ==
    [][\A p \in Tasks :
          (proc'[p] # proc[p] /\ proc'[p].op = "delete") =>
             LET d == proc'[p].draw
                 r == proc'[p].result
             IN /\ d \notin DOMAIN draws => r \in {NotFound, StorageFailure}
                /\ r = NotFound => d \notin DOMAIN draws
                /\ (DeleteCall(p, d) /\ d \notin DOMAIN draws) => r = NotFound
                /\ r # OkUnit => draws' = draws /\ items' = items
                /\ r = OkUnit =>
                      /\ d \in DOMAIN draws
                      /\ DOMAIN draws' = DOMAIN draws \ {d}
                      /\ \A e \in DOMAIN draws' : draws'[e] = draws[e]]_vars

\* a delete_draw call on a missing id has failed with NotFound while another
\* draw exists
C17_Witness ==
    \E p \in Tasks :
        /\ proc[p].op = "delete" /\ proc[p].result = NotFound
        /\ proc[p].draw \notin DOMAIN draws
        /\ draws # <<>>

\* ------------------------------------------------------------ the scheduler
\* C18: a tick selects exactly the draws that are Pending with plan_time <=
\* the current time, each once; so an Executed or Unfillable draw is never
\* selected again, the scheduler works only on draws that are due, and it
\* writes no draw whose plan_time is still in the future
C18_SelectsExactlyDue ==
    /\ [](proc[Sched].op = "execute" /\ proc[Sched].draw \in DOMAIN draws
             => draws[proc[Sched].draw].plan_time <= now)
    /\ [][/\ SchedFetch =>
                /\ Range(pending') =
                      {d \in DOMAIN draws :
                          draws[d].status = Pending /\ draws[d].plan_time <= now}
                /\ Distinct(pending')
          /\ \A d \in Kept :
                draws'[d] # draws[d] => draws[d].plan_time <= now]_vars

\* a tick is under way while a Pending draw it did not select is still in
\* the future and an already Executed draw is not selected either
C18_Witness ==
    /\ proc[Sched].op = "execute"
    /\ \E d \in DOMAIN draws :
          /\ draws[d].status = Pending /\ draws[d].plan_time > now
          /\ d \notin Range(pending)

\* C19: in a tick, a failure while executing one due draw (a statement of
\* draw_lucky_winner failing, or the marking UPDATE failing) changes no draw
\* record, so the draw stays Pending, and the scheduler goes on to the next
\* draw of the tick; the tick works through its whole list
C19_FailureIsContained ==
    /\ [](/\ pending # <<>> =>
                proc[Sched].op = "execute" /\ proc[Sched].draw = Head(pending)
          /\ proc[Sched].pc = "idle" => pending = <<>>)
    /\ [][(ExecFail(Sched) \/ SchedMarkErr) =>
             /\ draws' = draws
             /\ pending' = Tail(pending)
             /\ proc'[Sched] = NextDraw(pending')]_vars

\* the tick fetched draws 1 and 2; draw 1, for which every user is eligible,
\* is still Pending after its turn, which only a failure leaves so, and the
\* scheduler is on draw 2
C19_Witness ==
    /\ pending = <<2>>
    /\ proc[Sched].draw = 2 /\ proc[Sched].pc = "load"
    /\ 1 \in DOMAIN draws
    /\ draws[1].status = Pending
    /\ draws[1].min_lp_require = 0
    /\ draws[1].plan_time <= now
    /\ draws[1].plan_time <= draws[2].plan_time

\* C20: with ticks that keep occurring and storage steps that eventually
\* succeed, every draw that is Pending with plan_time <= now eventually is
\* Executed, Unfillable or deleted
C20_DueDrawsLeavePending ==
    \A d \in DrawIds :
        (d \in DOMAIN draws /\ draws[d].status = Pending /\ draws[d].plan_time <= now)
        ~> (d \notin DOMAIN draws \/ draws[d].status # Pending)

\* a draw nobody qualifies for has been marked Unfillable by the scheduler
C20_Witness ==
    \E d \in DOMAIN draws :
        /\ draws[d].status = Unfillable
        /\ draws[d].min_lp_require = 1
        /\ \A u \in Users : lp[u] < 1

\* ------------------------------------------------------------- set_winner
\* C21: a set_winner call that returns Ok on an existing draw leaves that
\* draw Executed with the winner field equal to the given identity, whatever
\* the draw's status was and whatever the identity's balance is, and changes
\* no other field, no other draw and no stock
C21_SetWinnerIsUnconditional ==
    [][\A p \in Tasks :
          (/\ proc'[p] # proc[p] /\ proc'[p].op = "set_winner"
           /\ proc'[p].result = OkUnit
           /\ proc'[p].draw \in DOMAIN draws)
          => LET d == proc'[p].draw
                 w == proc'[p].winners[1]
             IN /\ DOMAIN draws' = DOMAIN draws
                /\ draws'[d] = [draws[d] EXCEPT !.status = Executed,
                                                !.winner_qq = Some(w)]
                /\ \A e \in DOMAIN draws \ {d} : draws'[e] = draws[e]
                /\ items' = items]_vars

\* set_winner has named a user whose balance is below the floor of a draw
\* linked to the item, and the draw is Executed with that winner
C21_Witness ==
    \E p \in Tasks :
        /\ proc[p].op = "set_winner" /\ proc[p].result = OkUnit
        /\ proc[p].draw \in DOMAIN draws
        /\ LET row == draws[proc[p].draw]
           IN /\ row.status = Executed
              /\ row.winner_qq = Some(proc[p].winners[1])
              /\ row.min_lp_require = 1
              /\ lp[proc[p].winners[1]] < 1
              /\ row.item_id # None

\* the fields of a draw record given at creation
Given(row) == <<row.create_qq, row.item_id, row.num, row.min_lp_require,
                row.plan_time>>

\* C22: a draw's creator, item link, quantity, min_lp_require and plan_time
\* keep the values given at creation for as long as the record exists: no
\* step changes them
C22_GivenFieldsAreFixed ==
    [][\A d \in Kept : Given(draws'[d]) = Given(draws[d])]_vars

\* C23: when execute_draw returns winners L, the draw's record exists, is
\* Executed and holds the join of L in its winner field, also when
\* delete_draw or set_winner ran between the call's status read and its write
C23_ReturnedIsPersisted ==
    [][\A p \in Tasks :
          (Steps(p, "update") /\ proc'[p].result.kind = "Winners")
          => LET d == proc[p].draw
             IN /\ d \in DOMAIN draws'
                /\ draws'[d].status = Executed
                /\ draws'[d].winner_qq = Some(Join(proc'[p].result.winners))]_vars

\* C24: for every integer quantity passed, a step of create_draw raises no
\* item's stock, and every draw record it stores has a positive quantity
C24_QuantityIsPositive ==
    [][(\E p \in Tasks : CreateMoves(p)) =>
          /\ \A i \in DOMAIN items :
                i \in DOMAIN items' /\ items'[i].count <= items[i].count
          /\ \A d \in DOMAIN draws' \ DOMAIN draws : draws'[d].num > 0]_vars

\* C25: create_draw without an item inserts exactly one new record, Pending
\* and without winner, holding the values given, changes no other record and
\* no stock, whatever the items' stock and owners are
C25_NoItemCreateInsertsPending ==
    [][\A c \in Users, n \in Quantities :
          CreateNoItem(c, n, 0, 0) =>
             /\ items' = items
             /\ nextId \notin DOMAIN draws
             /\ DOMAIN draws' = DOMAIN draws \cup {nextId}
             /\ draws'[nextId] =
                   [create_qq |-> c, item_id |-> None, num |-> n,
                    min_lp_require |-> 0, plan_time |-> 0,
                    status |-> Pending, winner_qq |-> None]
             /\ \A e \in DOMAIN draws : draws'[e] = draws[e]]_vars

\* the newest record is a Pending draw without an item created by u2, who owns
\* no item, and the only item is sold out
C25_Witness ==
    /\ items = <<>>
    /\ \E d \in DOMAIN draws :
          /\ draws[d].create_qq = "u2" /\ draws[d].item_id = None
          /\ draws[d].status = Pending
          /\ d = nextId - 1

\* C26: when the scheduler starts draw_lucky_winner on a draw, that draw is
\* the first of the draws of this tick still to be executed and none of the
\* others has an earlier plan_time; a draw leaves that list only as its
\* first element, when its execution ends; and the list get_pending_draws
\* returns holds each Pending draw once and no other draw, in ascending
\* plan_time
C26_AscendingPlanTime ==
    /\ [](proc[Sched].pc = "load" =>
             /\ pending # <<>>
             /\ proc[Sched].draw = Head(pending)
             /\ \A k \in 2..Len(pending) :
                   draws[Head(pending)].plan_time <= draws[pending[k]].plan_time)
    /\ [][/\ (pending' # pending /\ proc[Sched].pc # "idle") =>
                /\ proc[Sched].draw = Head(pending)
                /\ pending' = Tail(pending)
          /\ \A p \in Tasks :
                (/\ proc'[p] # proc[p]
                 /\ proc'[p].op = "get_pending_draws"
                 /\ proc'[p].result.kind = "Rows") =>
                   LET s == proc'[p].result.rows
                   IN /\ Range(s) = {d \in DOMAIN draws : draws[d].status = Pending}
                      /\ Distinct(s)
                      /\ \A i, j \in DOMAIN s :
                            i < j => draws[s[i]].plan_time <= draws[s[j]].plan_time]_vars

\* the scheduler starts on the first of two draws fetched in one tick, the
\* draw created later but planned earlier, and get_pending_draws has
\* returned the two in that order
C26_Witness ==
    /\ proc[Sched].pc = "load"
    /\ Len(pending) = 2
    /\ pending[1] > pending[2]
    /\ draws[pending[1]].plan_time < draws[pending[2]].plan_time
    /\ proc["t2"].result = OkRows(pending)

\* the sum of the quantities of the draws of S in table ds
RECURSIVE Quantity(_, _)
Quantity(ds, S) ==
    IF S = {} THEN 0
    ELSE LET d == CHOOSE x \in S : TRUE
         IN ds[d].num + Quantity(ds, S \ {d})

\* the draws of ds linked to item i
LinkedTo(ds, i) == {d \in DOMAIN ds : ds[d].item_id = Some(i)}

\* C27: without purchases and with positive quantities an item's stock is
\* never negative, and stock + quantities of its Pending draws + quantities
\* of its draws that have left Pending is the initial stock. The draws that
\* have left Pending are the linked records that are not Pending and the
\* ones deleted while not Pending: the stock plus the quantities of all
\* linked records is the initial stock while no draw has been deleted, and
\* a step changes it only by deleting linked records that were not Pending,
\* lowering it by their quantities.
C27_StockIsConserved ==
    /\ [](\A i \in DOMAIN items :
             /\ items[i].count >= 0
             /\ items[i].count + Quantity(draws, LinkedTo(draws, i)) <= MaxStock
             /\ DOMAIN draws = 1..(nextId - 1)
                   => items[i].count + Quantity(draws, LinkedTo(draws, i)) = MaxStock)
    /\ [][\A i \in DOMAIN items :
             /\ i \in DOMAIN items'
             /\ items'[i].count + Quantity(draws', LinkedTo(draws', i)) =
                   items[i].count + Quantity(draws, LinkedTo(draws, i))
                   - Quantity(draws, {d \in LinkedTo(draws, i) \ DOMAIN draws' :
                                       draws[d].status # Pending})]_vars

\* the first draw was deleted after it had left Pending, the second is
\* Pending, and the two hold the whole stock
C27_Witness ==
    /\ nextId = 3 /\ DOMAIN draws = {2}
    /\ draws[2].status = Pending /\ draws[2].item_id = Some(1)
    /\ draws[2].num = 1
    /\ items[1].count = MaxStock - 2

\* C28: a draw's reservation is not both consumed and released: a call of
\* draw_lucky_winner, by a task or by the scheduler, returns winners only for
\* a draw whose reservation delete_draw has not given back to the stock, and
\* delete_draw gives back only the reservation of a draw for which no task's
\* call has returned winners
C28_NotConsumedAndReleased ==
    [][/\ \A p \in Procs :
             (Update(p) /\ proc[p].winners # <<>>) => ~resv[proc[p].draw].released
       /\ \A d \in DrawIds :
             (~resv[d].released /\ resv'[d].released) =>
                \A p \in Tasks :
                   ~(/\ proc[p].op = "execute" /\ proc[p].pc = "done"
                     /\ proc[p].draw = d /\ proc[p].result.kind = "Winners")]_vars

\* C29: while an item-linked draw stays Pending, whatever step is taken,
\* purchases of the item included, the draw keeps its link and the item's
\* record exists
C29_PendingKeepsItem ==
    /\ [](\A d \in DOMAIN draws :
             (draws[d].status = Pending /\ draws[d].item_id # None)
                => draws[d].item_id[1] \in DOMAIN items)
    /\ [][\A d \in Kept :
             (/\ draws[d].status = Pending /\ draws[d].item_id # None
              /\ draws'[d].status = Pending)
                => draws'[d].item_id = draws[d].item_id]_vars

\* the winner lists draw_lucky_winner can select
WinnerLists == UNION {Selections(Users, k) : k \in 1..Cardinality(Users)}

\* the persisted winner field s holds identity u: s is the joined form of a
\* winner list in which u occurs (set_winner stores a list of one)
Holds(s, u) == \E w \in WinnerLists : s = Some(Join(w)) /\ u \in Range(w)

\* C30: the rows get_user_wins returns for an identity are the existing
\* draws whose persisted winner list holds that identity, the draws executed
\* with more than one winner included, and no other draw
C30_ListsEveryWin ==
    [][\A p \in Tasks, u \in Users :
          (/\ proc'[p] # proc[p]
           /\ proc'[p].op = "get_user_wins"
           /\ proc'[p].winners = <<u>>
           /\ proc'[p].result.kind = "Rows") =>
              Range(proc'[p].result.rows) =
                 {d \in DOMAIN draws : Holds(draws[d].winner_qq, u)}]_vars

====
